---------------------------- MODULE Spec2Model ----------------------------
(***************************************************************************)
(* AudioPreprocessor (audio_preprocessing.py): one pipeline instance whose *)
(* methods load, pad, log_spectrogram, normalize and save are called in    *)
(* any order by a single-threaded caller, together with the directories    *)
(* it reads and writes.                                                    *)
(*                                                                         *)
(* Conventions.                                                            *)
(*  - A Python attribute that may be None is a sequence of length 0 (None) *)
(*    or 1 (the value): None, Some(x), Val(o).                             *)
(*  - A waveform is a sequence of integer amplitudes; a batch of waveforms *)
(*    is a sequence of waveforms (a Python list after load, an array after *)
(*    pad; both iterate row by row).                                       *)
(*  - A floating-point number (a spectrogram element, a min or a max) is   *)
(*    an integer count of 1/Scale units, so that 1.0 is Scale; a division  *)
(*    or multiplication rounds to the nearest unit, as a float operation   *)
(*    rounds to the nearest representable value.  NaN stands for the       *)
(*    not-a-number that 0/0 produces.                                      *)
(*  - A spectrogram is a sequence of rows (frequency bins), each a         *)
(*    sequence over time frames.                                           *)
(*  - An exception raised by a call is recorded in last.raised; the        *)
(*    assignments made before the raising statement are kept, as Python    *)
(*    keeps them.                                                          *)
(***************************************************************************)
EXTENDS Integers, Sequences, FiniteSets

VARIABLES
    signals,            \* self.signals
    spectrograms,       \* self.spectrograms
    original_min_max,   \* self.original_min_max
    sample_rate,        \* self.sample_rate
    filenames,          \* self.filenames
    signal_length,      \* self.signal_length
    frame_size,         \* self.frame_size
    hop_length,         \* self.hop_length
    disk,               \* the directories: path -> [exists, files]
    ragged_raises,      \* whether the installed numpy refuses ragged input
    normalized,         \* history: spectrograms is the output of normalize
    last,               \* history: the last call, its arguments and outcome
    pre,                \* history: the fields and the disk before that call
    calls               \* history: number of calls made

fields == <<signals, spectrograms, original_min_max, sample_rate, filenames,
            signal_length, frame_size, hop_length>>

vars == <<signals, spectrograms, original_min_max, sample_rate, filenames,
          signal_length, frame_size, hop_length, disk, ragged_raises,
          normalized, last, pre, calls>>

---------------------------------------------------------------------------
(* Bounds of the exploration. *)

\* Number of method calls explored on the instance.
MaxCalls == 4

\* Units per 1.0 of the number grid (the precision of the arithmetic).
Scale == 8

---------------------------------------------------------------------------
(* Python values. *)

None == <<>>
Some(x) == <<x>>
Val(o) == o[1]

\* The not-a-number value of line 96's 0/0; below every number of the model.
NaN == -1000000

Range(s) == {s[i] : i \in 1..Len(s)}

\* Python int(a/b) for b > 0: truncation toward zero.
IntTrunc(a, b) == IF a >= 0 THEN a \div b ELSE -((-a) \div b)

\* a/b rounded to the nearest integer (b > 0), halves upward.
RoundDiv(a, b) == (2 * a + b) \div (2 * b)

Zeros(n) == [i \in 1..n |-> 0]

\* Python s[:t]: the first t elements, or all but the last -t when t < 0.
Slice(s, t) ==
    LET n == IF t >= 0 THEN (IF t < Len(s) THEN t ELSE Len(s))
             ELSE (IF Len(s) + t > 0 THEN Len(s) + t ELSE 0)
    IN  SubSeq(s, 1, n)

\* A list of arrays whose shapes differ cannot be made one rectangular array.
IsRagged(list) == \E i, j \in 1..Len(list) : Len(list[i]) # Len(list[j])

IsRagged2(list) ==
    \E i, j \in 1..Len(list) :
        \/ Len(list[i]) # Len(list[j])
        \/ \E r \in 1..Len(list[i]) :
               r <= Len(list[j]) /\ Len(list[i][r]) # Len(list[j][r])

---------------------------------------------------------------------------
(* The file system.  A directory is [exists, files]; files is its listing  *)
(* in os.listdir order; an entry records whether its name starts with a    *)
(* dot (hidden), whether librosa can decode it (audio), whether its write  *)
(* was completed (complete) and its content (data).  The content of an     *)
(* audio file is its waveform at one sample per second.                    *)

NoDir == [exists |-> FALSE, files |-> <<>>]

Dir(files) == [exists |-> TRUE, files |-> files]

AudioFile(name, pcm) ==
    [name |-> name, hidden |-> FALSE, audio |-> TRUE, complete |-> TRUE,
     data |-> <<pcm>>]

OtherFile(name, hidden) ==
    [name |-> name, hidden |-> hidden, audio |-> FALSE, complete |-> TRUE,
     data |-> <<>>]

\* An array written by np.save: not an audio file.
NpyFile(name, array) ==
    [name |-> name, hidden |-> FALSE, audio |-> FALSE, complete |-> TRUE,
     data |-> array]

\* The file np.save has opened for writing when the conversion of its
\* argument to an array raises: created, nothing written.
TruncatedFile(name) ==
    [name |-> name, hidden |-> FALSE, audio |-> FALSE, complete |-> FALSE,
     data |-> <<>>]

Paths == {"clips", "more", "mixed", "out"}

SampleRates == {1, 2}

\* duration = n / d seconds
Durations == {[n |-> -1, d |-> 2], [n |-> 1, d |-> 2], [n |-> 3, d |-> 2]}

\* the directories save is called on: one that exists, one that does not
SavePaths == {"clips", "out"}

\* (frame_size, hop_length) with hop_length = frame_size / 2, as the defaults
StftParams == {[n |-> 2, hop |-> 1], [n |-> 4, hop |-> 2]}

InitialDisk ==
    [p \in Paths |->
        CASE p = "clips" ->
                 Dir(<<AudioFile("a.wav", <<1, 1>>),
                       OtherFile(".DS_Store", TRUE),
                       AudioFile("b.wav", <<1, 0>>)>>)
          [] p = "more" ->
                 Dir(<<AudioFile("c.wav", <<0, 1>>),
                       AudioFile("d.wav", <<1>>),
                       AudioFile("e.wav", <<>>)>>)
          [] p = "mixed" ->
                 Dir(<<AudioFile("f.wav", <<1>>),
                       OtherFile("notes.txt", FALSE)>>)
          [] OTHER -> NoDir]

---------------------------------------------------------------------------
(* load, lines 31-42 *)

\* line 41: the listing without the names that start with a dot
Visible(files) == SelectSeq(files, LAMBDA e : ~e.hidden)

\* librosa.load(file, sr=sample_rate)[0]: the waveform resampled to sr
\* samples per second (each one-second sample held for sr samples).
Decode(e, sr) ==
    LET pcm == e.data[1]
    IN  [i \in 1..(Len(pcm) * sr) |-> pcm[((i - 1) \div sr) + 1]]

\* line 42: the list comprehension raises at the first entry librosa cannot
\* decode, and then nothing is assigned to self.signals.
DecodeAll(vis, sr) ==
    IF \E i \in 1..Len(vis) : ~vis[i].audio
    THEN [raised |-> TRUE, value |-> <<>>]
    ELSE [raised |-> FALSE, value |-> [i \in 1..Len(vis) |-> Decode(vis[i], sr)]]

---------------------------------------------------------------------------
(* pad, lines 44-63 *)

\* line 52: int(self.sample_rate * duration)
TargetLength(sr, dur) == IntTrunc(sr * dur.n, dur.d)

\* Faulty variant of PadSignal: a longer waveform is not truncated.
PadSignalNoTruncation(signal, target) ==
    IF Len(signal) < target
    THEN Zeros(target - Len(signal)) \o signal
    ELSE signal

\* Faulty variant of PadSignal: the zeros are appended.
PadSignalRight(signal, target) ==
    IF Len(signal) < target
    THEN signal \o Zeros(target - Len(signal))
    ELSE Slice(signal, target)

\* Faulty variant of PadSignal: truncation keeps the last samples.
PadSignalKeepTail(signal, target) ==
    IF Len(signal) < target
    THEN Zeros(target - Len(signal)) \o signal
    ELSE SubSeq(signal, Len(signal) - Len(Slice(signal, target)) + 1, Len(signal))

\* lines 57-60
PadSignal(signal, target) ==
    IF Len(signal) < target
    THEN Zeros(target - Len(signal)) \o signal
    ELSE Slice(signal, target)

\* np.array(list) / np.asanyarray(list) of one-dimensional arrays: raises
\* on ragged input when the installed numpy refuses it, and otherwise
\* builds an array of arrays.
NpArrayRaises(list) == ragged_raises /\ IsRagged(list)

\* the same for a list of two-dimensional arrays
NpArrayRaises2(list) == ragged_raises /\ IsRagged2(list)

---------------------------------------------------------------------------
(* log_spectrogram, lines 65-84 *)

Max2(a, b) == IF a >= b THEN a ELSE b

SetMax(S) == CHOOSE x \in S : \A y \in S : y <= x

SetMin(S) == CHOOSE x \in S : \A y \in S : x <= y

\* librosa.stft frames: the signal is centred (n_fft \div 2 zeros on each
\* side, pad_mode "constant") and frame t starts at sample t * hop_length.
NumFrames(signal, hop) == 1 + Len(signal) \div hop

StftFrame(signal, n, hop, t) ==
    LET padded == Zeros(n \div 2) \o signal \o Zeros(n \div 2)
    IN  SubSeq(padded, t * hop + 1, t * hop + n)

\* |DFT bin k|^2 of a frame of n samples (rectangular window), for the
\* bins kept by [:-1]: k = 0 when n = 2, k = 0 or 1 when n = 4.
BinPower(f, n, k) ==
    IF k = 0
    THEN LET RECURSIVE Sum(_)
             Sum(i) == IF i = 0 THEN 0 ELSE f[i] + Sum(i - 1)
         IN  Sum(n) * Sum(n)
    ELSE (f[1] - f[3]) * (f[1] - f[3]) + (f[2] - f[4]) * (f[2] - f[4])

\* 10 * log10(power) in whole decibels, with power floored at amin^2
\* (1e-10, that is -100 dB).
PowerToDb(p) ==
    IF p <= 0 THEN -100
    ELSE <<0, 3, 5, 6, 7, 8, 8, 9, 10, 10, 10, 11, 11, 11, 12, 12>>[
             IF p > 16 THEN 16 ELSE p]

\* lines 80-81: stft(...)[:-1], magnitude, amplitude_to_db (top_db = 80:
\* nothing lies more than 80 dB under the spectrogram's maximum).
LogSpectrogramOf(signal, n, hop) ==
    LET frames == NumFrames(signal, hop)
        raw == [k \in 1..(n \div 2) |->
                   [t \in 1..frames |->
                       PowerToDb(BinPower(StftFrame(signal, n, hop, t - 1), n, k - 1))]]
        top == SetMax(UNION {Range(raw[k]) : k \in 1..(n \div 2)})
    IN  [k \in 1..(n \div 2) |->
            [t \in 1..frames |-> Scale * Max2(raw[k][t], top - 80)]]

---------------------------------------------------------------------------
(* normalize, lines 86-100 *)

Elements(spectrogram) ==
    UNION {Range(spectrogram[r]) : r \in 1..Len(spectrogram)}

\* ndarray.min() and ndarray.max(): a NaN element makes the result NaN
ArrayMin(spectrogram) ==
    IF NaN \in Elements(spectrogram) THEN NaN ELSE SetMin(Elements(spectrogram))

ArrayMax(spectrogram) ==
    IF NaN \in Elements(spectrogram) THEN NaN ELSE SetMax(Elements(spectrogram))

FloatSub(a, b) == IF a = NaN \/ b = NaN THEN NaN ELSE a - b

\* a / b rounded to the grid; 0/0 is NaN (the divisor is 0 only for a
\* constant spectrogram, whose numerators are all 0).
FloatDiv(a, b) ==
    IF a = NaN \/ b = NaN \/ b = 0 THEN NaN ELSE RoundDiv(a * Scale, b)

\* lines 92-94
MinMaxPair(spectrogram) == <<ArrayMin(spectrogram), ArrayMax(spectrogram)>>

\* line 96
Rescale(spectrogram, original_min, original_max) ==
    [r \in 1..Len(spectrogram) |->
        [t \in 1..Len(spectrogram[r]) |->
            FloatDiv(FloatSub(spectrogram[r][t], original_min),
                     FloatSub(original_max, original_min))]]

\* Faulty variant of NormSpectrogramList: one min and one max for the
\* whole batch.
NormSpectrogramListBatchWide(batch) ==
    LET all == UNION {Elements(batch[i]) : i \in 1..Len(batch)}
        lo == IF NaN \in all THEN NaN ELSE SetMin(all)
        hi == IF NaN \in all THEN NaN ELSE SetMax(all)
    IN  [i \in 1..Len(batch) |-> Rescale(batch[i], lo, hi)]

\* lines 91-97, the list of normalized spectrograms
NormSpectrogramList(batch) ==
    [i \in 1..Len(batch) |->
        Rescale(batch[i], MinMaxPair(batch[i])[1], MinMaxPair(batch[i])[2])]

\* Faulty variant of MinMaxList: the pairs are taken from the rescaled
\* spectrograms.
MinMaxListOfRescaled(batch) ==
    [i \in 1..Len(batch) |->
        MinMaxPair(Rescale(batch[i], MinMaxPair(batch[i])[1],
                           MinMaxPair(batch[i])[2]))]

\* lines 91-94, the list of pairs
MinMaxList(batch) == [i \in 1..Len(batch) |-> MinMaxPair(batch[i])]

---------------------------------------------------------------------------
(* save, lines 102-111 *)

\* np.save(file, arr): opens the file, converts arr to an array (which may
\* raise on a ragged list) and writes it.
NpSave(name, array, raises) ==
    IF raises
    THEN [raised |-> TRUE, file |-> TruncatedFile(name)]
    ELSE [raised |-> FALSE, file |-> NpyFile(name, array)]

\* lines 106-111: the three guarded writes in order, up to the first that
\* raises.
SaveWrites ==
    LET w1 == IF signals = None
              THEN [raised |-> FALSE, files |-> <<>>]
              ELSE LET r == NpSave("signals.npy", Val(signals),
                                   NpArrayRaises(Val(signals)))
                   IN  [raised |-> r.raised, files |-> <<r.file>>]
        w2 == IF w1.raised \/ spectrograms = None
              THEN w1
              ELSE LET r == NpSave("spectrograms.npy", Val(spectrograms),
                                   NpArrayRaises2(Val(spectrograms)))
                   IN  [raised |-> r.raised, files |-> Append(w1.files, r.file)]
        w3 == IF w2.raised \/ original_min_max = None
              THEN w2
              ELSE LET r == NpSave("original_min_max.npy", Val(original_min_max),
                                   FALSE)
                   IN  [raised |-> r.raised, files |-> Append(w2.files, r.file)]
    IN  w3

\* Faulty variant of MkdirRaises: the directory is made with exist_ok.
MkdirNeverRaises(path) == FALSE

\* line 104: os.mkdir(path) raises when the path exists
MkdirRaises(path) == disk[path].exists

---------------------------------------------------------------------------
(* The instance and its calls. *)

Snapshot ==
    [signals |-> signals, spectrograms |-> spectrograms,
     original_min_max |-> original_min_max, sample_rate |-> sample_rate,
     filenames |-> filenames, signal_length |-> signal_length,
     frame_size |-> frame_size, hop_length |-> hop_length, disk |-> disk,
     normalized |-> normalized]

NoDuration == [n |-> 0, d |-> 1]

Call(op, raised, path, dur) ==
    [op |-> op, raised |-> raised, path |-> path, dur |-> dur]

\* Every call: the history it leaves, and what no call changes.
Called(op, raised, path, dur) ==
    /\ calls < MaxCalls
    /\ calls' = calls + 1
    /\ last' = Call(op, raised, path, dur)
    /\ pre' = Snapshot
    /\ UNCHANGED ragged_raises

\* __init__, lines 19-29
Init ==
    /\ signals = None
    /\ spectrograms = None
    /\ original_min_max = None
    /\ sample_rate = None
    /\ filenames = None
    /\ signal_length = None
    /\ frame_size = None
    /\ hop_length = None
    /\ disk = InitialDisk
    /\ ragged_raises \in BOOLEAN
    /\ normalized = FALSE
    /\ last = Call("init", FALSE, "", NoDuration)
    /\ pre = Snapshot
    /\ calls = 0

\* Faulty variant of LoadOutcome: the waveforms decoded before the failing
\* file are stored.
LoadOutcomePartial(path, sr) ==
    IF ~disk[path].exists
    THEN [raised |-> TRUE, filenames |-> filenames, signals |-> signals]
    ELSE LET vis == Visible(disk[path].files)
             names == Some([i \in 1..Len(vis) |-> vis[i].name])
             dec == DecodeAll(vis, sr)
             bad == CHOOSE i \in 1..Len(vis) :
                        ~vis[i].audio /\ \A j \in 1..(i - 1) : vis[j].audio
         IN  IF dec.raised
             THEN [raised |-> TRUE, filenames |-> names,
                   signals |-> Some([i \in 1..(bad - 1) |-> Decode(vis[i], sr)])]
             ELSE [raised |-> FALSE, filenames |-> names,
                   signals |-> Some(dec.value)]

\* The outcome of load(path, sr): what lines 40-42 assign before returning
\* or raising.
LoadOutcome(path, sr) ==
    IF ~disk[path].exists
    THEN \* os.listdir raises
         [raised |-> TRUE, filenames |-> filenames, signals |-> signals]
    ELSE LET vis == Visible(disk[path].files)
             names == Some([i \in 1..Len(vis) |-> vis[i].name])
             dec == DecodeAll(vis, sr)
         IN  IF dec.raised
             THEN [raised |-> TRUE, filenames |-> names, signals |-> signals]
             ELSE [raised |-> FALSE, filenames |-> names,
                   signals |-> Some(dec.value)]

load(path, sr) ==
    LET out == LoadOutcome(path, sr)
    IN  /\ Called("load", out.raised, path, NoDuration)
        /\ sample_rate' = Some(sr)
        /\ filenames' = out.filenames
        /\ signals' = out.signals
        /\ UNCHANGED <<spectrograms, original_min_max, signal_length,
                       frame_size, hop_length, disk, normalized>>

\* The outcome of pad(duration): line 52 raises on a None sample rate, the
\* loop of line 56 on None signals, line 63 on a ragged list.
PadOutcome(dur) ==
    IF sample_rate = None
    THEN [raised |-> TRUE, signal_length |-> signal_length, signals |-> signals]
    ELSE LET target == TargetLength(Val(sample_rate), dur)
         IN  IF signals = None
             THEN [raised |-> TRUE, signal_length |-> Some(target),
                   signals |-> signals]
             ELSE LET list == [i \in 1..Len(Val(signals)) |->
                                  PadSignal(Val(signals)[i], target)]
                  IN  IF NpArrayRaises(list)
                      THEN [raised |-> TRUE, signal_length |-> Some(target),
                            signals |-> signals]
                      ELSE [raised |-> FALSE, signal_length |-> Some(target),
                            signals |-> Some(list)]

pad(dur) ==
    LET out == PadOutcome(dur)
    IN  /\ Called("pad", out.raised, "", dur)
        /\ signal_length' = out.signal_length
        /\ signals' = out.signals
        /\ UNCHANGED <<spectrograms, original_min_max, sample_rate, filenames,
                       frame_size, hop_length, disk, normalized>>

\* The outcome of log_spectrogram(n, hop): the loop of line 79 raises on
\* None signals, line 84 on spectrograms of different shapes.
LogSpectrogramOutcome(n, hop) ==
    IF signals = None
    THEN [raised |-> TRUE, spectrograms |-> spectrograms]
    ELSE LET list == [i \in 1..Len(Val(signals)) |->
                         LogSpectrogramOf(Val(signals)[i], n, hop)]
         IN  IF NpArrayRaises2(list)
             THEN [raised |-> TRUE, spectrograms |-> spectrograms]
             ELSE [raised |-> FALSE, spectrograms |-> Some(list)]

log_spectrogram(n, hop) ==
    LET out == LogSpectrogramOutcome(n, hop)
    IN  /\ Called("log_spectrogram", out.raised, "", NoDuration)
        /\ frame_size' = Some(n)
        /\ hop_length' = Some(hop)
        /\ spectrograms' = out.spectrograms
        /\ normalized' = (normalized /\ out.raised)
        /\ UNCHANGED <<signals, original_min_max, sample_rate, filenames,
                       signal_length, disk>>

\* Faulty variant of NormalizeOutcome: pairs already recorded for the
\* batch are kept.
NormalizeOutcomeKeepPairs ==
    IF spectrograms = None
    THEN [raised |-> TRUE, original_min_max |-> Some(<<>>),
          spectrograms |-> spectrograms]
    ELSE LET list == NormSpectrogramList(Val(spectrograms))
             pairs == IF original_min_max # None
                         /\ Len(Val(original_min_max)) = Len(Val(spectrograms))
                      THEN Val(original_min_max)
                      ELSE MinMaxList(Val(spectrograms))
         IN  IF NpArrayRaises2(list)
             THEN [raised |-> TRUE, original_min_max |-> Some(pairs),
                   spectrograms |-> spectrograms]
             ELSE [raised |-> FALSE, original_min_max |-> Some(pairs),
                   spectrograms |-> Some(list)]

\* The outcome of normalize(): line 89 assigns the empty list, the loop of
\* line 91 raises on None spectrograms, line 100 on a ragged list.
NormalizeOutcome ==
    IF spectrograms = None
    THEN [raised |-> TRUE, original_min_max |-> Some(<<>>),
          spectrograms |-> spectrograms]
    ELSE LET pairs == MinMaxList(Val(spectrograms))
             list == NormSpectrogramList(Val(spectrograms))
         IN  IF NpArrayRaises2(list)
             THEN [raised |-> TRUE, original_min_max |-> Some(pairs),
                   spectrograms |-> spectrograms]
             ELSE [raised |-> FALSE, original_min_max |-> Some(pairs),
                   spectrograms |-> Some(list)]

normalize ==
    LET out == NormalizeOutcome
    IN  /\ Called("normalize", out.raised, "", NoDuration)
        /\ original_min_max' = out.original_min_max
        /\ spectrograms' = out.spectrograms
        /\ normalized' = (normalized \/ ~out.raised)
        /\ UNCHANGED <<signals, sample_rate, filenames, signal_length,
                       frame_size, hop_length, disk>>

\* The outcome of save(path): the directory after the call.
SaveOutcome(path) ==
    IF MkdirRaises(path)
    THEN [raised |-> TRUE, dir |-> disk[path]]
    ELSE [raised |-> SaveWrites.raised, dir |-> Dir(SaveWrites.files)]

save(path) ==
    LET out == SaveOutcome(path)
    IN  /\ Called("save", out.raised, path, NoDuration)
        /\ disk' = [disk EXCEPT ![path] = out.dir]
        /\ UNCHANGED <<signals, spectrograms, original_min_max, sample_rate,
                       filenames, signal_length, frame_size, hop_length,
                       normalized>>

Next ==
    \/ \E path \in Paths, sr \in SampleRates : load(path, sr)
    \/ \E dur \in Durations : pad(dur)
    \/ \E p \in StftParams : log_spectrogram(p.n, p.hop)
    \/ normalize
    \/ \E path \in SavePaths : save(path)

Spec == Init /\ [][Next]_vars

---------------------------------------------------------------------------
(* Vocabulary of the properties. *)

FieldsUnchanged ==
    /\ signals = pre.signals
    /\ spectrograms = pre.spectrograms
    /\ original_min_max = pre.original_min_max
    /\ sample_rate = pre.sample_rate
    /\ filenames = pre.filenames
    /\ signal_length = pre.signal_length
    /\ frame_size = pre.frame_size
    /\ hop_length = pre.hop_length

Abs(x) == IF x < 0 THEN -x ELSE x

\* floor(a/b) for b > 0
Floor(a, b) == a \div b

\* a * b rounded to the grid
FloatMul(a, b) == IF a = NaN \/ b = NaN THEN NaN ELSE RoundDiv(a * b, Scale)

FloatAdd(a, b) == IF a = NaN \/ b = NaN THEN NaN ELSE a + b

PadReturned == last.op = "pad" /\ ~last.raised

\* floor(duration * sample_rate) of the pad call that has just returned
TargetCount == Floor(Val(pre.sample_rate) * last.dur.n, last.dur.d)

\* the batch before and after the pad call that has just returned
Before == Val(pre.signals)

After == Val(signals)

NormalizeReturned == last.op = "normalize" /\ ~last.raised

SpecBefore == Val(pre.spectrograms)

SpecAfter == Val(spectrograms)

NonConstant(spectrogram) == Cardinality(Elements(spectrogram)) > 1

\* spectrogram * (max - min) + min, as the consumer of the saved arrays
\* computes it
Denormalized(x, pair) ==
    FloatAdd(FloatMul(x, FloatSub(pair[2], pair[1])), pair[1])

---------------------------------------------------------------------------
(* C1 *)

\* C1: whenever signals and spectrograms are both set, there are as many
\* spectrograms as signals, and as many min-max pairs when original_min_max
\* is set.
C1_Cardinality ==
    (signals # None /\ spectrograms # None) =>
        /\ Len(Val(spectrograms)) = Len(Val(signals))
        /\ original_min_max # None =>
               Len(Val(original_min_max)) = Len(Val(signals))

---------------------------------------------------------------------------
(* C2 *)

\* C2 as stated: after pad returns, for every duration, every waveform has
\* floor(duration * sample_rate) samples and signal_length holds that value.
C2_EveryDuration ==
    PadReturned =>
        /\ \A i \in 1..Len(After) : Len(After[i]) = TargetCount
        /\ signal_length = Some(TargetCount)

\* C2 amended: the same for every duration that is not negative.
C2_NonNegativeDuration ==
    (PadReturned /\ last.dur.n >= 0) =>
        /\ Len(After) = Len(Before)
        /\ \A i \in 1..Len(After) : Len(After[i]) = TargetCount
        /\ signal_length = Some(TargetCount)

\* pad has returned on a batch holding a waveform shorter than the target,
\* one of exactly the target length, one longer and one of length 0.
C2_Witness ==
    /\ PadReturned
    /\ last.dur.n >= 0
    /\ \E i, j, k, l \in 1..Len(Before) :
           /\ Len(Before[i]) < TargetCount
           /\ Len(Before[j]) = TargetCount
           /\ Len(Before[k]) > TargetCount
           /\ Len(Before[l]) = 0

---------------------------------------------------------------------------
(* C3 *)

\* C3: after pad returns, a waveform that was shorter than the target ends
\* with its original samples in order, and everything before them is zero.
C3_LeftPadding ==
    PadReturned =>
        \A i \in 1..Len(Before) :
            LET L == Len(Before[i])
                T == TargetCount
            IN  L < T =>
                    /\ Len(After[i]) = T
                    /\ \A k \in 1..L : After[i][T - L + k] = Before[i][k]
                    /\ \A k \in 1..(T - L) : After[i][k] = 0

\* pad has returned on a waveform shorter than the target that holds a
\* non-zero sample.
C3_Witness ==
    /\ PadReturned
    /\ \E i \in 1..Len(Before) :
           /\ Len(Before[i]) < TargetCount
           /\ \E k \in 1..Len(Before[i]) : Before[i][k] # 0

---------------------------------------------------------------------------
(* C4 *)

\* C4 as stated: after pad returns, a waveform at least as long as the
\* target T is exactly its first T samples.
C4_Truncation ==
    PadReturned =>
        \A i \in 1..Len(Before) :
            LET T == TargetCount
            IN  Len(Before[i]) >= T =>
                    /\ Len(After[i]) = T
                    /\ \A k \in 1..T : After[i][k] = Before[i][k]

\* C4 amended: the same when the duration is not negative.
C4_TruncationNonNegative ==
    (PadReturned /\ last.dur.n >= 0) =>
        \A i \in 1..Len(Before) :
            LET T == TargetCount
            IN  Len(Before[i]) >= T =>
                    /\ Len(After[i]) = T
                    /\ \A k \in 1..T : After[i][k] = Before[i][k]

\* pad has returned on a waveform longer than the target whose dropped tail
\* differs from its head, and on one of exactly the target length.
C4_Witness ==
    /\ PadReturned
    /\ last.dur.n >= 0
    /\ TargetCount > 0
    /\ \E i, j \in 1..Len(Before) :
           /\ Len(Before[i]) > TargetCount
           /\ Before[i][Len(Before[i])] # Before[i][TargetCount]
           /\ Len(Before[j]) = TargetCount
           /\ After[j] = Before[j]

---------------------------------------------------------------------------
(* C5 *)

\* C5: save on a path that exists raises, leaves every directory as it
\* was (nothing written, nothing overwritten) and leaves every field of
\* the instance as it was.
C5_SaveOnExistingPath ==
    (last.op = "save" /\ pre.disk[last.path].exists) =>
        /\ last.raised
        /\ disk = pre.disk
        /\ FieldsUnchanged

\* a second save to the path a first save has created and written arrays
\* to, while the instance holds arrays to write
C5_Witness ==
    /\ last.op = "save"
    /\ last.path = "out"
    /\ pre.disk["out"].exists
    /\ Len(pre.disk["out"].files) > 0
    /\ \A k \in 1..Len(pre.disk["out"].files) : pre.disk["out"].files[k].complete
    /\ signals # None
    /\ spectrograms # None

---------------------------------------------------------------------------
(* C6 *)

\* the names of the files of a directory that were written completely
WrittenNames(dir) ==
    {dir.files[k].name : k \in {j \in 1..Len(dir.files) : dir.files[j].complete}}

\* C6: save on a path that does not exist never fails, creates the
\* directory and writes exactly signals.npy if signals is set,
\* spectrograms.npy if spectrograms is set and original_min_max.npy if
\* original_min_max is set (an empty directory on a fresh instance).
C6_PartialPersistence ==
    (last.op = "save" /\ ~pre.disk[last.path].exists) =>
        /\ ~last.raised
        /\ disk[last.path].exists
        /\ Len(disk[last.path].files) = Cardinality(WrittenNames(disk[last.path]))
        /\ WrittenNames(disk[last.path]) =
               (IF signals # None THEN {"signals.npy"} ELSE {})
               \cup (IF spectrograms # None THEN {"spectrograms.npy"} ELSE {})
               \cup (IF original_min_max # None
                     THEN {"original_min_max.npy"} ELSE {})

---------------------------------------------------------------------------
(* C7 *)

\* the failures C7 lists: load on an undecodable file, pad before load,
\* log_spectrogram before load, normalize before log_spectrogram, save on
\* an existing path
ListedFailure ==
    /\ last.raised
    /\ \/ last.op = "load" /\ pre.disk[last.path].exists
       \/ last.op = "pad" /\ pre.signals = None
       \/ last.op = "log_spectrogram" /\ pre.signals = None
       \/ last.op = "normalize" /\ pre.spectrograms = None
       \/ last.op = "save" /\ pre.disk[last.path].exists

\* C7 as stated: a listed failure leaves every field of the instance with
\* the value it had before the call (the fields of earlier stages, of the
\* failing stage and of later stages), so original_min_max is still unset
\* after a failed normalize.
C7_FailureChangesNothing == ListedFailure => FieldsUnchanged

\* C7 amended: a call that raises leaves signals and spectrograms and the
\* fields of every other stage as they were; the fields the failing stage
\* assigns before the statement that raises are the only ones that may
\* change: sample_rate and filenames for load, signal_length for pad,
\* frame_size and hop_length for log_spectrogram, original_min_max for
\* normalize, none for save.
C7_FailureKeepsBatches ==
    last.raised =>
        /\ signals = pre.signals
        /\ spectrograms = pre.spectrograms
        /\ last.op # "load" =>
               sample_rate = pre.sample_rate /\ filenames = pre.filenames
        /\ last.op # "pad" => signal_length = pre.signal_length
        /\ last.op # "log_spectrogram" =>
               frame_size = pre.frame_size /\ hop_length = pre.hop_length
        /\ last.op # "normalize" => original_min_max = pre.original_min_max

\* load has raised on an undecodable file after an earlier load, pad and
\* log_spectrogram had succeeded
C7_Witness ==
    /\ last.op = "load"
    /\ last.raised
    /\ pre.disk[last.path].exists
    /\ pre.signals # None
    /\ pre.signal_length # None
    /\ pre.spectrograms # None

---------------------------------------------------------------------------
(* C8 *)

\* C8: after normalize returns, every spectrogram that was not constant
\* has all its elements in [0, 1], its minimum exactly 0 and its maximum
\* exactly 1, whatever the other spectrograms of the batch hold.
C8_UnitRange ==
    NormalizeReturned =>
        /\ Len(SpecAfter) = Len(SpecBefore)
        /\ \A i \in 1..Len(SpecBefore) :
               NonConstant(SpecBefore[i]) =>
                   /\ \A x \in Elements(SpecAfter[i]) : 0 <= x /\ x <= Scale
                   /\ 0 \in Elements(SpecAfter[i])
                   /\ Scale \in Elements(SpecAfter[i])

\* normalize has returned on a batch holding two non-constant spectrograms
\* whose minima differ and whose maxima differ, neither of them already
\* spanning [0, 1]
C8_Witness ==
    /\ NormalizeReturned
    /\ ~pre.normalized
    /\ \E i, j \in 1..Len(SpecBefore) :
           /\ NonConstant(SpecBefore[i])
           /\ NonConstant(SpecBefore[j])
           /\ SetMin(Elements(SpecBefore[i])) # SetMin(Elements(SpecBefore[j]))
           /\ SetMax(Elements(SpecBefore[i])) # SetMax(Elements(SpecBefore[j]))

---------------------------------------------------------------------------
(* C9 *)

\* the i-th pair is the (min, max) of the i-th spectrogram before the call
PairsRecorded ==
    /\ Len(Val(original_min_max)) = Len(SpecBefore)
    /\ \A i \in 1..Len(SpecBefore) :
           Val(original_min_max)[i] =
               <<SetMin(Elements(SpecBefore[i])), SetMax(Elements(SpecBefore[i]))>>

\* C9 as stated: after normalize returns, the i-th pair is the (min, max)
\* of the i-th spectrogram before the call, and
\* normalized * (max - min) + min equals every element of every
\* non-constant spectrogram before the call.
C9_ExactRoundTrip ==
    NormalizeReturned =>
        /\ PairsRecorded
        /\ \A i \in 1..Len(SpecBefore) :
               NonConstant(SpecBefore[i]) =>
                   \A r \in 1..Len(SpecBefore[i]) :
                       \A t \in 1..Len(SpecBefore[i][r]) :
                           Denormalized(SpecAfter[i][r][t], Val(original_min_max)[i])
                               = SpecBefore[i][r][t]

\* C9 amended: the pairs as stated, and normalized * (max - min) + min is
\* within rounding of every element of every non-constant spectrogram
\* before the call: off by at most half a unit of the normalized value
\* times (max - min), plus half a unit of the result.
C9_RoundTripWithinRounding ==
    NormalizeReturned =>
        /\ PairsRecorded
        /\ \A i \in 1..Len(SpecBefore) :
               NonConstant(SpecBefore[i]) =>
                   \A r \in 1..Len(SpecBefore[i]) :
                       \A t \in 1..Len(SpecBefore[i][r]) :
                           LET pair == Val(original_min_max)[i]
                               back == Denormalized(SpecAfter[i][r][t], pair)
                           IN  2 * Scale * Abs(back - SpecBefore[i][r][t])
                                   <= (pair[2] - pair[1]) + Scale

\* normalize has returned on a batch of spectrograms with different pairs,
\* one of them with an element strictly between its min and its max
C9_Witness ==
    /\ NormalizeReturned
    /\ ~pre.normalized
    /\ \E i, j \in 1..Len(SpecBefore) :
           /\ Val(original_min_max)[i] # Val(original_min_max)[j]
           /\ NonConstant(SpecBefore[i])
           /\ Cardinality(Elements(SpecBefore[i])) > 2

---------------------------------------------------------------------------
(* C10 *)

\* normalize has returned, and the spectrograms it was given were the
\* output of an earlier normalize (no log_spectrogram has replaced them)
SecondNormalizeReturned == NormalizeReturned /\ pre.normalized

\* C10 as stated: a second normalize leaves every non-constant spectrogram
\* as the first left it and makes every stored pair (0, 1).
C10_EveryPairUnit ==
    SecondNormalizeReturned =>
        /\ Len(Val(original_min_max)) = Len(SpecBefore)
        /\ \A i \in 1..Len(SpecBefore) :
               /\ NonConstant(SpecBefore[i]) => SpecAfter[i] = SpecBefore[i]
               /\ Val(original_min_max)[i] = <<0, Scale>>

\* C10 amended: a second normalize leaves every non-constant spectrogram
\* as the first left it and makes its pair (0, 1); a constant spectrogram,
\* which the first call made all NaN, stays all NaN and its pair becomes
\* (NaN, NaN).
C10_NonConstantPairUnit ==
    SecondNormalizeReturned =>
        /\ Len(Val(original_min_max)) = Len(SpecBefore)
        /\ \A i \in 1..Len(SpecBefore) :
               IF NonConstant(SpecBefore[i])
               THEN /\ SpecAfter[i] = SpecBefore[i]
                    /\ Val(original_min_max)[i] = <<0, Scale>>
               ELSE /\ Elements(SpecAfter[i]) = {NaN}
                    /\ Val(original_min_max)[i] = <<NaN, NaN>>

\* a second normalize has returned on a batch holding a non-constant
\* spectrogram, whose pair of the first call was not (0, 1), and a
\* constant one
C10_Witness ==
    /\ SecondNormalizeReturned
    /\ \E i, j \in 1..Len(SpecBefore) :
           /\ NonConstant(SpecBefore[i])
           /\ Val(pre.original_min_max)[i] # <<0, Scale>>
           /\ Val(original_min_max)[i] = <<0, Scale>>
           /\ ~NonConstant(SpecBefore[j])

===========================================================================
